---- MODULE Spec2Model ----
(***************************************************************************)
(* Model of src/src/app/page.tsx (ChatInterface): the chat page that posts *)
(* a query, reads the server-sent-event response chunk by chunk, cuts it   *)
(* into lines (carry-over buffer + newline scan) and folds the JSON events *)
(* of the data lines into the assistant message of the exchange.           *)
(*                                                                         *)
(* Text is a sequence of symbols.  Every character the decoder looks at    *)
(* (the line break, white space, the letters of the markers "data:" and    *)
(* "event:") is a symbol of its own; a JSON payload is cut into a few      *)
(* symbols that hold several characters each, none of which starts or ends *)
(* with white space.  A chunk boundary may fall between any two symbols.   *)
(*                                                                         *)
(* The clock counts half milliseconds: Date.now() is Epoch + clock \div 2  *)
(* and performance.now() is clock / 2.                                     *)
(***************************************************************************)
EXTENDS Integers, Sequences, FiniteSets, TLC

VARIABLES
    messages,            \* useState<Message[]>           (line 26)
    inputValue,          \* useState('')                  (line 34)
    isLoading,           \* useState(false)               (line 42)
    threadId,            \* useState('')                  (line 43)
    pc,                  \* where handleSubmit is: "idle", "fetch", "reading";
                         \* "crashed": an updater has thrown and React has
                         \* unmounted the component
    assistantMessageId,  \* const of the running handleSubmit (line 106)
    startTime,           \* const of the running handleSubmit (line 120)
    requestThreadId,     \* requestBody.threadId of the last request (line 124)
    buffer,              \* let buffer of the running handleSubmit (line 158)
    wire,                \* response text the server has sent and read() has not yet returned
    sent,                \* number of lines the server has sent in this run
    exchanges,           \* number of submissions accepted in this run
    clock,               \* half milliseconds elapsed
    received,            \* history: the text read() has returned in this exchange
    payloads,            \* history: the dataStr values of this exchange, in order
    split,               \* history: some read of this exchange ended inside a line
    outcome,             \* history: how the last handleSubmit ended: "none", "done", "fault"
    dropped              \* history: the text in the buffer when the last stream ended

vars == <<messages, inputValue, isLoading, threadId, pc, assistantMessageId,
          startTime, requestThreadId, buffer, wire, sent, exchanges, clock,
          received, payloads, split, outcome, dropped>>

-----------------------------------------------------------------------------
(* Bounds of the model *)

\* lines the server sends in a run
MaxLines == 3
\* the same, where the framing is examined
MaxFrameLines == 2
\* submissions accepted in a run
MaxExchanges == 1
\* half milliseconds that pass in a run
MaxClock == 1
\* the server writes a line once fewer than this many symbols are unread
MaxInFlight == 1
\* the same, where the framing is examined: room for several lines
MaxInFlightFrames == 8
\* Date.now() when the page is loaded
Epoch == 10
\* submissions accepted in a run, where several exchanges are examined
MaxSessionExchanges == 2
\* lines the server sends in such a run
MaxSessionLines == 2
\* lines the server sends in a run, where the events without effect are examined
MaxPassiveLines == 2
\* half milliseconds that pass in a run of the end-to-end scenario
MaxScenarioClock == 150
\* half milliseconds the clock advances at a time in that scenario
ScenarioStep == 50
\* the server writes a line of the scenario once fewer than this many symbols
\* are unread: room for all four lines
MaxInFlightScenario == 25

-----------------------------------------------------------------------------
(* JavaScript values *)

Undefined == "undefined"
NoTime == -1

\* Truthiness of a JavaScript string value (or undefined).
TruthyString(s) == s \notin {Undefined, ""}

\* Truthiness of a JSON value, which the model holds as its JSON text.
TruthyValue(v) == v \notin {Undefined, "null", "0", "false", "\"\""}

MathRoundHalves(h) == (h + 1) \div 2

DateNow == Epoch + (clock \div 2)

PerformanceNow == clock

-----------------------------------------------------------------------------
(* Strings *)

NL == "\n"

Whitespace == {" ", "\t", "\r", NL}

DATA == <<"d", "a", "t", "a", ":">>

EVENT == <<"e", "v", "e", "n", "t", ":">>

Min(S) == CHOOSE x \in S : \A y \in S : x <= y

Max(S) == CHOOSE x \in S : \A y \in S : y <= x

IndexOf(s, c) ==
    LET hits == {i \in 1..Len(s) : s[i] = c}
    IN  IF hits = {} THEN 0 ELSE Min(hits)

Trim(s) ==
    LET solid == {i \in 1..Len(s) : s[i] \notin Whitespace}
    IN  IF solid = {} THEN <<>> ELSE SubSeq(s, Min(solid), Max(solid))

StartsWith(s, p) == Len(s) >= Len(p) /\ SubSeq(s, 1, Len(p)) = p

Substring(s, from) == SubSeq(s, from + 1, Len(s))

RECURSIVE Join(_)
Join(s) == IF s = <<>> THEN "" ELSE Head(s) \o Join(Tail(s))

-----------------------------------------------------------------------------
(* JSON.parse over the payloads the modelled server can send.  A parsed    *)
(* value is a record with every field an event may carry; a field the JSON *)
(* text does not have is Undefined (the empty text for content and error,  *)
(* which are read only for an event of their own type).                    *)

Data(type, function_name, arguments, result, thread_id, content, error) ==
    [type |-> type, function_name |-> function_name, arguments |-> arguments,
     result |-> result, thread_id |-> thread_id, content |-> content,
     error |-> error]

Typed(type) == Data(type, Undefined, Undefined, Undefined, Undefined, <<>>, <<>>)

\* JSON.parse("null"): the value null, of which no property can be read.
Null == Typed("null value")

JSONTable ==
    [text \in {} |-> Typed(Undefined)]
    @@ ("{\"type\":\"content\",\"content\":\"a\"}" :>
            [Typed("content") EXCEPT !.content = <<"a">>])
    @@ ("{\"type\":\"content\",\"content\":\"b\"}" :>
            [Typed("content") EXCEPT !.content = <<"b">>])
    @@ ("{\"type\":\"content\",\"content\":\"hi\"}" :>
            [Typed("content") EXCEPT !.content = <<"h", "i">>])
    @@ ("{\"type\":\"content\",\"content\":\"Hello \"}" :>
            [Typed("content") EXCEPT !.content = <<"H", "e", "l", "l", "o", " ">>])
    @@ ("{\"type\":\"content\",\"content\":\"world\"}" :>
            [Typed("content") EXCEPT !.content = <<"w", "o", "r", "l", "d">>])
    @@ ("{\"type\":\"function_call\",\"function_name\":\"f\",\"arguments\":{}}" :>
            [Typed("function_call") EXCEPT !.function_name = "f", !.arguments = "{}"])
    @@ ("{\"type\":\"function_call\",\"function_name\":\"g\",\"arguments\":{}}" :>
            [Typed("function_call") EXCEPT !.function_name = "g", !.arguments = "{}"])
    @@ ("{\"type\":\"function_result\",\"function_name\":\"f\",\"result\":1}" :>
            [Typed("function_result") EXCEPT !.function_name = "f", !.result = "1"])
    @@ ("{\"type\":\"function_result\",\"function_name\":\"f\",\"result\":2}" :>
            [Typed("function_result") EXCEPT !.function_name = "f", !.result = "2"])
    @@ ("{\"type\":\"function_result\",\"function_name\":\"f\",\"result\":0}" :>
            [Typed("function_result") EXCEPT !.function_name = "f", !.result = "0"])
    @@ ("{\"type\":\"thread_info\",\"thread_id\":\"T1\"}" :>
            [Typed("thread_info") EXCEPT !.thread_id = "T1"])
    @@ ("{\"type\":\"thread_info\",\"thread_id\":\"T2\"}" :>
            [Typed("thread_info") EXCEPT !.thread_id = "T2"])
    @@ ("{\"type\":\"thread_info\",\"thread_id\":\"\"}" :>
            [Typed("thread_info") EXCEPT !.thread_id = ""])
    @@ ("{\"type\":\"intermediate\"}" :> Typed("intermediate"))
    @@ ("{\"type\":\"stream_complete\"}" :> Typed("stream_complete"))
    @@ ("{\"type\":\"error\",\"error\":\"boom\"}" :>
            [Typed("error") EXCEPT !.error = <<"b", "o", "o", "m">>])
    @@ ("{\"type\":\"error\",\"error\":\"bang\"}" :>
            [Typed("error") EXCEPT !.error = <<"b", "a", "n", "g">>])
    @@ ("{\"type\":\"ping\"}" :> Typed("ping"))
    @@ ("null" :> Null)
    @@ ("7" :> Typed(Undefined))

\* JSON.parse(dataStr) returns a value (it throws a SyntaxError otherwise).
JSONValid(dataStr) == Join(dataStr) \in DOMAIN JSONTable

JSONParse(dataStr) == JSONTable[Join(dataStr)]

\* Reading data.type (line 197) throws a TypeError.
Throws(data) == data = Null

-----------------------------------------------------------------------------
(* Messages *)

WelcomeText == <<"Hello and welcome to Shadow! How can I help you today?">>

\* A Message (lines 7-15).  An absent functionCalls is the empty sequence, an
\* absent isStreaming is FALSE (the code only tests it for truth) and an
\* absent responseTime is NoTime.
Message(id, content, type, timestamp, isStreaming) ==
    [id |-> id, content |-> content, type |-> type, timestamp |-> timestamp,
     functionCalls |-> <<>>, isStreaming |-> isStreaming, responseTime |-> NoTime]

WelcomeMessage == Message(1, WelcomeText, "assistant", DateNow, FALSE)

\* A FunctionCall (lines 17-23); its id is the template `${name}-${Date.now()}`.
FunctionCall(name, arguments) ==
    [id |-> <<name, "-", DateNow>>, name |-> name, arguments |-> arguments,
     result |-> Undefined, timestamp |-> DateNow]

-----------------------------------------------------------------------------
(* The reducer: the updater handed to setMessages for one parsed event     *)
(* (lines 193-245).                                                        *)

ErrorPrefix == <<"E", "r", "r", "o", "r", ":", " ">>

\* Mutant: the new record goes in front.
OnFunctionCallFront(msg, data) ==
    [msg EXCEPT !.functionCalls =
        <<FunctionCall(data.function_name, data.arguments)>> \o @]

OnFunctionCall(msg, data) ==
    [msg EXCEPT !.functionCalls =
        Append(@, FunctionCall(data.function_name, data.arguments))]

OnFunctionResult(msg, data) ==
    [msg EXCEPT !.functionCalls =
        [i \in DOMAIN @ |->
            IF @[i].name = data.function_name /\ ~TruthyValue(@[i].result)
            THEN [@[i] EXCEPT !.result = data.result]
            ELSE @[i]]]

\* Mutant: the fragment goes in front.
OnContentPrepend(msg, data) == [msg EXCEPT !.content = data.content \o @]

OnContent(msg, data) == [msg EXCEPT !.content = @ \o data.content]

\* Mutant: the elapsed time is taken from the load of the page.
OnStreamCompleteSinceLoad(msg) ==
    [msg EXCEPT !.isStreaming = FALSE,
                !.responseTime = MathRoundHalves(PerformanceNow)]

OnStreamComplete(msg) ==
    [msg EXCEPT !.isStreaming = FALSE,
                !.responseTime = MathRoundHalves(PerformanceNow - startTime)]

\* Mutant: += for =, the error text goes behind the content.
OnErrorAppended(msg, data) ==
    [msg EXCEPT !.content = @ \o ErrorPrefix \o data.error, !.isStreaming = FALSE]

\* Mutant: the error leaves the record streaming.
OnErrorStillStreaming(msg, data) ==
    [msg EXCEPT !.content = ErrorPrefix \o data.error]

OnError(msg, data) ==
    [msg EXCEPT !.content = ErrorPrefix \o data.error, !.isStreaming = FALSE]

\* Mutant: no break after the intermediate case, which falls through.
UpdateMessageFallThrough(msg, data) ==
    CASE data.type = "function_call"   -> OnFunctionCall(msg, data)
      [] data.type = "function_result" -> OnFunctionResult(msg, data)
      [] data.type = "thread_info"     -> msg
      [] data.type = "content"         -> OnContent(msg, data)
      [] data.type = "intermediate"    -> OnStreamComplete(msg)
      [] data.type = "stream_complete" -> OnStreamComplete(msg)
      [] data.type = "error"           -> OnError(msg, data)
      [] OTHER                         -> msg

UpdateMessage(msg, data) ==
    CASE data.type = "function_call"   -> OnFunctionCall(msg, data)
      [] data.type = "function_result" -> OnFunctionResult(msg, data)
      [] data.type = "thread_info"     -> msg
      [] data.type = "content"         -> OnContent(msg, data)
      [] data.type = "intermediate"    -> msg
      [] data.type = "stream_complete" -> OnStreamComplete(msg)
      [] data.type = "error"           -> OnError(msg, data)
      [] OTHER                         -> msg

IsTarget(msg) == msg.id = assistantMessageId

MapMessages(msgs, data) ==
    [i \in DOMAIN msgs |->
        IF ~IsTarget(msgs[i]) THEN msgs[i] ELSE UpdateMessage(msgs[i], data)]

\* Mutant: only the first token of a conversation is kept.
ThreadIdAfterFirst(msgs, tid, data) ==
    IF /\ data.type = "thread_info"
       /\ TruthyString(data.thread_id)
       /\ \E i \in DOMAIN msgs : IsTarget(msgs[i])
       /\ tid = ""
    THEN data.thread_id
    ELSE tid

\* Mutant: the token of a thread_info event is dropped.
ThreadIdKept(msgs, tid, data) == tid

\* setThreadId is called from inside the updater, for a message it updates.
ThreadIdAfter(msgs, tid, data) ==
    IF /\ data.type = "thread_info"
       /\ TruthyString(data.thread_id)
       /\ \E i \in DOMAIN msgs : IsTarget(msgs[i])
    THEN data.thread_id
    ELSE tid

-----------------------------------------------------------------------------
(* The decoder: the inner while loop of one read (lines 170-251).  st is   *)
(* [buffer, messages, threadId, payloads, thrown]; payloads collects the   *)
(* dataStr values handed to JSON.parse; thrown tells that an updater       *)
(* queued by this read throws when React runs it.                          *)

\* The catch block's updater (lines 258-266).
CatchMessages(msgs, message) ==
    [i \in DOMAIN msgs |->
        IF IsTarget(msgs[i])
        THEN [msgs[i] EXCEPT
                !.content = <<"Sorry, I encountered an error: ">> \o message,
                !.isStreaming = FALSE]
        ELSE msgs[i]]

\* Mutant: no try around JSON.parse, the SyntaxError reaches the catch block.
OnDataNoTry(st, dataStr) ==
    LET seen == [st EXCEPT !.payloads = Append(@, dataStr)]
    IN  IF ~JSONValid(dataStr)
        THEN [seen EXCEPT !.messages = CatchMessages(st.messages, <<"Unexpected token">>)]
        ELSE [seen EXCEPT
                !.messages = MapMessages(st.messages, JSONParse(dataStr)),
                !.threadId = ThreadIdAfter(st.messages, st.threadId, JSONParse(dataStr))]

\* The updater of lines 193-245 is not run by the call of setMessages inside
\* the try block: React runs it when it renders the component (and discards
\* the exception of an eager run), so the catch of line 247 does not see what
\* the updater throws.
OnData(st, dataStr) ==
    LET seen == [st EXCEPT !.payloads = Append(@, dataStr)]
    IN  IF ~JSONValid(dataStr)
        THEN seen
        ELSE IF /\ Throws(JSONParse(dataStr))
                /\ \E i \in DOMAIN st.messages : IsTarget(st.messages[i])
        THEN [seen EXCEPT !.thrown = TRUE]
        ELSE [seen EXCEPT
                !.messages = MapMessages(st.messages, JSONParse(dataStr)),
                !.threadId = ThreadIdAfter(st.messages, st.threadId, JSONParse(dataStr))]

\* Mutant: the text after the data marker is not trimmed.
OnLineNoTrim(st, line) ==
    IF line = <<>> THEN st
    ELSE IF StartsWith(line, EVENT) THEN st
    ELSE IF StartsWith(line, DATA)
         THEN LET dataStr == Substring(line, 5)
              IN  IF dataStr = <<>> THEN st ELSE OnData(st, dataStr)
    ELSE st

OnLine(st, line) ==
    IF line = <<>> THEN st
    ELSE IF StartsWith(line, EVENT) THEN st
    ELSE IF StartsWith(line, DATA)
         THEN LET dataStr == Trim(Substring(line, 5))
              IN  IF dataStr = <<>> THEN st ELSE OnData(st, dataStr)
    ELSE st

\* Mutant: the text after the last line break is not carried over.
RECURSIVE ProcessLinesNoCarry(_)
ProcessLinesNoCarry(st) ==
    LET newlineIndex == IndexOf(st.buffer, NL)
    IN  IF newlineIndex = 0
        THEN [st EXCEPT !.buffer = <<>>]
        ELSE LET line == Trim(SubSeq(st.buffer, 1, newlineIndex - 1))
                 rest == Substring(st.buffer, newlineIndex)
             IN  ProcessLinesNoCarry(OnLine([st EXCEPT !.buffer = rest], line))

\* Mutant: an if for the while, one line for each read.
ProcessLinesOnce(st) ==
    LET newlineIndex == IndexOf(st.buffer, NL)
    IN  IF newlineIndex = 0
        THEN st
        ELSE LET line == Trim(SubSeq(st.buffer, 1, newlineIndex - 1))
                 rest == Substring(st.buffer, newlineIndex)
             IN  OnLine([st EXCEPT !.buffer = rest], line)

RECURSIVE ProcessLines(_)
ProcessLines(st) ==
    LET newlineIndex == IndexOf(st.buffer, NL)
    IN  IF newlineIndex = 0
        THEN st
        ELSE LET line == Trim(SubSeq(st.buffer, 1, newlineIndex - 1))
                 rest == Substring(st.buffer, newlineIndex)
             IN  ProcessLines(OnLine([st EXCEPT !.buffer = rest], line))

-----------------------------------------------------------------------------
(* What the environment supplies *)

Inputs == {<<"q">>, <<" ">>}

\* error.message of what fetch and the checks after it throw (lines 136-156).
\* and the text for a thrown value that is no Error (line 262).
FetchFaults == {<<"HTTP error! status: 500">>, <<"Failed to get response reader">>,
                <<"Failed to fetch">>, <<"Unknown error">>}

\* error.message of a rejected reader.read().
ReadFaults == {<<"network error">>}

DataLine(text) == DATA \o <<" ", text, NL>>

\* Spec: content, the two terminal events and a payload that is not JSON.
EventLines ==
    { DataLine("{\"type\":\"content\",\"content\":\"a\"}"),
      DataLine("{\"type\":\"content\",\"content\":\"b\"}"),
      DataLine("{\"type\":\"stream_complete\"}"),
      DataLine("{\"type\":\"error\",\"error\":\"boom\"}"),
      DataLine("{\"type\":\"content\",") }

\* SpecCalls: function calls and their results, one of them the number 0.
CallLines ==
    { DataLine("{\"type\":\"function_call\",\"function_name\":\"f\",\"arguments\":{}}"),
      DataLine("{\"type\":\"function_call\",\"function_name\":\"g\",\"arguments\":{}}"),
      DataLine("{\"type\":\"function_result\",\"function_name\":\"f\",\"result\":1}"),
      DataLine("{\"type\":\"function_result\",\"function_name\":\"f\",\"result\":0}") }

\* SpecFrames: the framing.  A payload in two symbols, a data line without
\* the space that ends in CR LF, an event line, a blank line, a comment line
\* and a data line without a payload.
FrameLines ==
    { DATA \o <<" ", "{\"type\":\"content\",", "\"content\":\"hi\"}", NL>>,
      DATA \o <<"7", "\r", NL>>,
      EVENT \o <<"m", NL>>,
      <<NL>>,
      <<":", NL>>,
      DATA \o <<" ", NL>> }

\* SpecTerminal: the two terminal events, for a record that has content and
\* a function call.
TerminalLines ==
    { DataLine("{\"type\":\"function_call\",\"function_name\":\"f\",\"arguments\":{}}"),
      DataLine("{\"type\":\"content\",\"content\":\"a\"}"),
      DataLine("{\"type\":\"stream_complete\"}"),
      DataLine("{\"type\":\"error\",\"error\":\"boom\"}") }

\* SpecPassive: the events that leave the record alone (a session token, an
\* empty one, the reserved type, an unknown type), for a record that has
\* content and a function call.
PassiveLines ==
    { DataLine("{\"type\":\"function_call\",\"function_name\":\"f\",\"arguments\":{}}"),
      DataLine("{\"type\":\"content\",\"content\":\"a\"}"),
      DataLine("{\"type\":\"thread_info\",\"thread_id\":\"T1\"}"),
      DataLine("{\"type\":\"thread_info\",\"thread_id\":\"\"}"),
      DataLine("{\"type\":\"intermediate\"}"),
      DataLine("{\"type\":\"ping\"}") }

\* SpecTail: a response whose last line lacks its line break.
TailLines ==
    { DataLine("{\"type\":\"content\",\"content\":\"a\"}"),
      DATA \o <<" ", "{\"type\":\"stream_complete\"}">>,
      <<NL>> }

\* SpecLoading: the terminal events, and a transport that settles.
LoadingLines ==
    { DataLine("{\"type\":\"stream_complete\"}"),
      DataLine("{\"type\":\"error\",\"error\":\"boom\"}") }

\* SpecFaults: events that are faulty one by one (a payload that is not
\* JSON, the values null and 7, an unknown type, a result without a call)
\* among content events.
FaultLines ==
    { DataLine("{\"type\":\"content\","),
      DataLine("null"),
      DataLine("7"),
      DataLine("{\"type\":\"ping\"}"),
      DataLine("{\"type\":\"function_result\",\"function_name\":\"f\",\"result\":1}"),
      DataLine("{\"type\":\"content\",\"content\":\"a\"}") }

\* SpecSession: several exchanges in one conversation.
SessionLines ==
    { DataLine("{\"type\":\"thread_info\",\"thread_id\":\"T1\"}"),
      DataLine("{\"type\":\"thread_info\",\"thread_id\":\"T2\"}"),
      DataLine("{\"type\":\"stream_complete\"}") }

\* SpecScenario: the response of the end-to-end scenario, line by line.
ScenarioLines ==
    << DataLine("{\"type\":\"thread_info\",\"thread_id\":\"T1\"}"),
       DataLine("{\"type\":\"content\",\"content\":\"Hello \"}"),
       DataLine("{\"type\":\"content\",\"content\":\"world\"}"),
       DataLine("{\"type\":\"stream_complete\"}") >>

-----------------------------------------------------------------------------
(* The component *)

Init ==
    /\ clock = 0
    /\ messages = <<WelcomeMessage>>
    /\ inputValue = <<>>
    /\ isLoading = FALSE
    /\ threadId = ""
    /\ pc = "idle"
    /\ assistantMessageId = 0
    /\ startTime = 0
    /\ requestThreadId = ""
    /\ buffer = <<>>
    /\ wire = <<>>
    /\ sent = 0
    /\ exchanges = 0
    /\ received = <<>>
    /\ payloads = <<>>
    /\ split = FALSE
    /\ outcome = "none"
    /\ dropped = <<>>

\* onChange of the message input (lines 744-750), disabled while loading.
OnChange(value) ==
    /\ ~isLoading
    /\ value # inputValue
    /\ inputValue' = value
    /\ UNCHANGED <<messages, isLoading, threadId, pc, assistantMessageId, startTime,
                   requestThreadId, buffer, wire, sent, exchanges, clock,
                   received, payloads, split, outcome, dropped>>

\* Mutant: the New Chat button is not disabled while loading.
HandleNewChatEnabled ==
    /\ messages' = <<WelcomeMessage>>
    /\ inputValue' = <<>>
    /\ threadId' = ""
    /\ isLoading' = FALSE
    /\ UNCHANGED <<pc, assistantMessageId, startTime, requestThreadId, buffer,
                   wire, sent, exchanges, clock, received, payloads, split, outcome, dropped>>

\* handleNewChat (lines 63-83), its button disabled while loading (line 418).
HandleNewChat ==
    /\ ~isLoading
    /\ messages' = <<WelcomeMessage>>
    /\ inputValue' = <<>>
    /\ threadId' = ""
    /\ isLoading' = FALSE
    /\ UNCHANGED <<pc, assistantMessageId, startTime, requestThreadId, buffer,
                   wire, sent, exchanges, clock, received, payloads, split, outcome, dropped>>

\* handleSubmit up to its first await (lines 85-145); the submit button is
\* disabled while loading or without input (line 754).
HandleSubmit(most) ==
    /\ ~isLoading
    /\ Trim(inputValue) # <<>>
    /\ exchanges < most
    /\ messages' = messages \o
            << Message(DateNow, inputValue, "user", DateNow, FALSE),
               Message(DateNow + 1, <<>>, "assistant", DateNow, TRUE) >>
    /\ inputValue' = <<>>
    /\ isLoading' = TRUE
    /\ assistantMessageId' = DateNow + 1
    /\ startTime' = PerformanceNow
    /\ requestThreadId' = threadId
    /\ pc' = "fetch"
    /\ buffer' = <<>>
    /\ wire' = <<>>
    /\ received' = <<>>
    /\ payloads' = <<>>
    /\ split' = FALSE
    /\ outcome' = "none"
    /\ dropped' = <<>>
    /\ exchanges' = exchanges + 1
    /\ UNCHANGED <<threadId, sent, clock>>

\* handleSubmit returns: its locals are gone, and so is the response.
Return(how) ==
    /\ pc' = "idle"
    /\ outcome' = how
    /\ dropped' = IF how = "done" THEN buffer ELSE <<>>
    /\ split' = FALSE
    /\ assistantMessageId' = 0
    /\ startTime' = 0
    /\ buffer' = <<>>
    /\ wire' = <<>>
    /\ received' = <<>>
    /\ payloads' = <<>>

\* Mutant: no finally, the loading flag stays after a fault.
CatchKeepsLoading(message) ==
    /\ messages' = CatchMessages(messages, message)
    /\ isLoading' = isLoading
    /\ Return("fault")

\* catch and finally (lines 254-269).
Catch(message) ==
    /\ messages' = CatchMessages(messages, message)
    /\ isLoading' = FALSE
    /\ Return("fault")

\* fetch rejects, or the response is not ok or has no body (lines 136-156).
FetchFails(message) ==
    /\ pc = "fetch"
    /\ Catch(message)
    /\ UNCHANGED <<inputValue, threadId, requestThreadId, sent, exchanges, clock>>

\* fetch resolves with an ok response and a reader (lines 136-158).
FetchResponds ==
    /\ pc = "fetch"
    /\ pc' = "reading"
    /\ buffer' = <<>>
    /\ UNCHANGED <<messages, inputValue, isLoading, threadId, assistantMessageId,
                   startTime, requestThreadId, wire, sent, exchanges, clock,
                   received, payloads, split, outcome, dropped>>

\* The server writes one more line of the response.
ServerSend(line, room, most) ==
    /\ pc = "reading"
    /\ sent < most
    /\ Len(wire) < room
    /\ wire' = wire \o line
    /\ sent' = sent + 1
    /\ UNCHANGED <<messages, inputValue, isLoading, threadId, pc, assistantMessageId,
                   startTime, requestThreadId, buffer, exchanges, clock,
                   received, payloads, split, outcome, dropped>>

\* reader.read() resolves with the next n symbols of the response, and the
\* loop body runs to the next read (lines 161-251); then React renders the
\* component with the updates the loop body has queued.  If an updater
\* throws, none of them takes effect and the component is unmounted.
ReadChunk(n) ==
    /\ pc = "reading"
    /\ n \in 1..Len(wire)
    /\ LET chunk == SubSeq(wire, 1, n)
           st == ProcessLines([buffer |-> buffer \o chunk, messages |-> messages,
                               threadId |-> threadId, payloads |-> payloads,
                               thrown |-> FALSE])
       IN  /\ buffer' = st.buffer
           /\ messages' = IF st.thrown THEN messages ELSE st.messages
           /\ threadId' = IF st.thrown THEN threadId ELSE st.threadId
           /\ pc' = IF st.thrown THEN "crashed" ELSE pc
           /\ payloads' = st.payloads
           /\ received' = received \o chunk
           /\ split' = (split \/ st.buffer # <<>>)
    /\ wire' = Substring(wire, n)
    /\ UNCHANGED <<inputValue, isLoading, assistantMessageId, startTime,
                   requestThreadId, sent, exchanges, clock, outcome, dropped>>

\* Mutant: the text left in the buffer is processed as a last line.
ReadDoneFlush ==
    /\ pc = "reading"
    /\ wire = <<>>
    /\ LET st == OnLine([buffer |-> <<>>, messages |-> messages,
                         threadId |-> threadId, payloads |-> payloads,
                         thrown |-> FALSE], Trim(buffer))
       IN  messages' = st.messages /\ threadId' = st.threadId
    /\ isLoading' = FALSE
    /\ Return("done")
    /\ UNCHANGED <<inputValue, requestThreadId, sent, exchanges, clock>>

\* reader.read() resolves with done: break, then finally (lines 163, 267-269).
ReadDone ==
    /\ pc = "reading"
    /\ wire = <<>>
    /\ isLoading' = FALSE
    /\ Return("done")
    /\ UNCHANGED <<messages, inputValue, threadId, requestThreadId, sent,
                   exchanges, clock>>

\* reader.read() rejects: catch, then finally (lines 161, 254-269).
ReadFails(message) ==
    /\ pc = "reading"
    /\ Catch(message)
    /\ UNCHANGED <<inputValue, threadId, requestThreadId, sent, exchanges, clock>>

\* Time passes: step half milliseconds.
Tick(step, most) ==
    /\ clock + step <= most
    /\ clock' = clock + step
    /\ UNCHANGED <<messages, inputValue, isLoading, threadId, pc, assistantMessageId,
                   startTime, requestThreadId, buffer, wire, sent, exchanges,
                   received, payloads, split, outcome, dropped>>

\* What the user and the transport do, with at most that many submissions.
Handlers(most) ==
    \/ \E value \in Inputs : OnChange(value)
    \/ HandleNewChat
    \/ HandleSubmit(most)
    \/ \E message \in FetchFaults : FetchFails(message)
    \/ FetchResponds
    \/ \E n \in 1..Len(wire) : ReadChunk(n)
    \/ ReadDone
    \/ \E message \in ReadFaults : ReadFails(message)

Component ==
    \/ Handlers(MaxExchanges)
    \/ Tick(1, MaxClock)

Next ==
    \/ Component
    \/ \E line \in EventLines : ServerSend(line, MaxInFlight, MaxLines)

Spec == Init /\ [][Next]_vars

NextCalls ==
    \/ Component
    \/ \E line \in CallLines : ServerSend(line, MaxInFlight, MaxLines)

SpecCalls == Init /\ [][NextCalls]_vars

NextFrames ==
    \/ Component
    \/ \E line \in FrameLines : ServerSend(line, MaxInFlightFrames, MaxFrameLines)

SpecFrames == Init /\ [][NextFrames]_vars

NextTerminal ==
    \/ Component
    \/ \E line \in TerminalLines : ServerSend(line, MaxInFlight, MaxLines)

SpecTerminal == Init /\ [][NextTerminal]_vars

NextPassive ==
    \/ Component
    \/ \E line \in PassiveLines : ServerSend(line, MaxInFlight, MaxPassiveLines)

SpecPassive == Init /\ [][NextPassive]_vars

NextTail ==
    \/ Component
    \/ \E line \in TailLines : ServerSend(line, MaxInFlight, MaxLines)

SpecTail == Init /\ [][NextTail]_vars

NextFaults ==
    \/ Component
    \/ \E line \in FaultLines : ServerSend(line, MaxInFlight, MaxLines)

SpecFaults == Init /\ [][NextFaults]_vars

\* The request is answered or fails.
FetchSettles ==
    \/ FetchResponds
    \/ \E message \in FetchFaults : FetchFails(message)

\* The stream closes or fails.
StreamCloses ==
    \/ ReadDone
    \/ \E message \in ReadFaults : ReadFails(message)

NextLoading ==
    \/ Component
    \/ \E line \in LoadingLines : ServerSend(line, MaxInFlight, MaxLines)

\* Every request settles, and every stream closes or fails in the end.
SpecLoading ==
    Init /\ [][NextLoading]_vars /\ WF_vars(FetchSettles) /\ WF_vars(StreamCloses)

NextSession ==
    \/ Handlers(MaxSessionExchanges)
    \/ Tick(1, MaxClock)
    \/ \E line \in SessionLines : ServerSend(line, MaxInFlight, MaxSessionLines)

SpecSession == Init /\ [][NextSession]_vars

\* The server writes the lines of the scenario in their order.
NextScenario ==
    \/ Handlers(MaxExchanges)
    \/ Tick(ScenarioStep, MaxScenarioClock)
    \/ \E k \in DOMAIN ScenarioLines \cap {sent + 1} :
            ServerSend(ScenarioLines[k], MaxInFlightScenario, Len(ScenarioLines))

SpecScenario == Init /\ [][NextScenario]_vars

-----------------------------------------------------------------------------
(* Vocabulary of the properties *)

\* The record of the running exchange: the message handleSubmit appended last.
Record == messages[Len(messages)]

RecordNext == messages'[Len(messages)]

Reading == pc = "reading"

IsPrefix(s, t) == Len(s) <= Len(t) /\ SubSeq(t, 1, Len(s)) = s

\* The events among a sequence of payloads: what JSON.parse returns for those
\* it accepts, in order.
Valid(dataStr) == JSONValid(dataStr)

EventsOf(ps) == [i \in DOMAIN SelectSeq(ps, Valid) |-> JSONParse(SelectSeq(ps, Valid)[i])]

RECURSIVE Fragments(_)
Fragments(events) ==
    IF events = <<>> THEN <<>>
    ELSE (IF Head(events).type = "content" THEN Head(events).content ELSE <<>>)
         \o Fragments(Tail(events))

\* The payloads a step of the read loop has handed to JSON.parse.
NewPayloads == SubSeq(payloads', Len(payloads) + 1, Len(payloads'))

ReadStep == pc = "reading" /\ pc' = "reading" /\ received' # received

Applies(types) ==
    /\ ReadStep
    /\ \E i \in DOMAIN EventsOf(NewPayloads) : EventsOf(NewPayloads)[i].type \in types

FaultStep == pc # "idle" /\ pc' = "idle" /\ outcome' = "fault"

\* The text cut at its line breaks: the complete lines, and what follows the
\* last break.
LineEnds(text) == {i \in 1..Len(text) : text[i] = NL}

LineEnd(text, k) ==
    CHOOSE e \in LineEnds(text) : Cardinality({x \in LineEnds(text) : x <= e}) = k

LineStart(text, k) == IF k = 1 THEN 1 ELSE LineEnd(text, k - 1) + 1

CompleteLines(text) ==
    [k \in 1..Cardinality(LineEnds(text)) |->
        SubSeq(text, LineStart(text, k), LineEnd(text, k) - 1)]

Remainder(text) ==
    IF LineEnds(text) = {} THEN text ELSE Substring(text, Max(LineEnds(text)))

\* The payload of a line: the trimmed text after the data marker.
PayloadOf(line) ==
    IF StartsWith(Trim(line), DATA) THEN Trim(Substring(Trim(line), 5)) ELSE <<>>

HasPayload(line) == PayloadOf(line) # <<>>

PayloadsOf(text) ==
    [i \in DOMAIN SelectSeq(CompleteLines(text), HasPayload) |->
        PayloadOf(SelectSeq(CompleteLines(text), HasPayload)[i])]

\* What the loop body yields for a text that arrives in one chunk.
InOneChunk(text) ==
    ProcessLines([buffer |-> text, messages |-> <<>>, threadId |-> "",
                  payloads |-> <<>>, thrown |-> FALSE]).payloads

HiPayload == <<"{\"type\":\"content\",", "\"content\":\"hi\"}">>

-----------------------------------------------------------------------------
(* Frame decoder, under SpecFrames *)

\* C1: chunk-boundary invariance.  When what has been read so far is exactly
\* one newline-terminated data line, however it was cut into chunks, the
\* decoder has yielded one payload, the one the line yields when it arrives
\* in one chunk (the text after the marker, trimmed), and holds nothing back.
C1_ChunkBoundaryInvariance ==
    (/\ Reading
     /\ LineEnds(received) = {Len(received)}
     /\ HasPayload(CompleteLines(received)[1]))
    => /\ payloads = InOneChunk(received)
       /\ payloads = <<PayloadOf(CompleteLines(received)[1])>>
       /\ buffer = <<>>

\* A data line whose payload spans two symbols arrived in more than one chunk.
C1_Witness ==
    /\ Reading
    /\ split
    /\ received = DATA \o <<" ">> \o HiPayload \o <<NL>>
    /\ payloads = <<HiPayload>>

\* C2: the payloads yielded so far are those of the complete lines of the
\* text read so far, in order, each once; the buffer holds the text after the
\* last line break.  Both depend on the concatenation of the chunks only.
C2_LinesInOrderOnce ==
    Reading => /\ payloads = PayloadsOf(received)
               /\ buffer = Remainder(received)

\* Two data lines with different payloads, cut inside a line.
C2_Witness ==
    /\ Reading
    /\ split
    /\ Cardinality(LineEnds(received)) = 2
    /\ Len(payloads) = 2
    /\ payloads[1] # payloads[2]

-----------------------------------------------------------------------------
(* Conversation reducer, under Spec *)

ContentA == <<"{\"type\":\"content\",\"content\":\"a\"}">>

ContentB == <<"{\"type\":\"content\",\"content\":\"b\"}">>

NotJSON == <<"{\"type\":\"content\",">>

OnlyContent(ps) ==
    \A i \in DOMAIN ps : Valid(ps[i]) /\ JSONParse(ps[i]).type = "content"

OnlyContentOrInvalid(ps) ==
    \A i \in DOMAIN ps : Valid(ps[i]) => JSONParse(ps[i]).type = "content"

\* C3: order preservation.  While every event applied to the record of the
\* exchange has been a content event, its content is the concatenation of
\* their fragments in arrival order.
C3_OrderPreservation ==
    (Reading /\ OnlyContent(payloads))
    => Record.content = Fragments(EventsOf(payloads))

\* Three content events with fragments a, b, b have been applied.
C3_Witness ==
    /\ Reading
    /\ payloads = <<ContentA, ContentB, ContentB>>
    /\ Record.content = <<"a", "b", "b">>

\* C4: a payload that is not JSON is skipped.  The step that meets only such
\* payloads leaves the messages and the session token as they were and the
\* loop running; and while the stream has carried content events and
\* payloads that are not JSON only, the record is streaming, without
\* response time or function calls, its content the concatenation of the
\* valid fragments.
C4_InvalidPayloadSkipped ==
    /\ [][(ReadStep /\ NewPayloads # <<>> /\ EventsOf(NewPayloads) = <<>>)
            => (messages' = messages /\ threadId' = threadId /\ isLoading')]_vars
    /\ []((Reading /\ OnlyContentOrInvalid(payloads))
            => /\ Record.content = Fragments(EventsOf(payloads))
               /\ Record.isStreaming
               /\ Record.responseTime = NoTime
               /\ Record.functionCalls = <<>>)

\* A payload that is not JSON has arrived between two content events.
C4_Witness ==
    /\ Reading
    /\ payloads = <<ContentA, NotJSON, ContentB>>
    /\ Record.content = <<"a", "b">>

\* C6 as claimed: once the record of the exchange is no longer streaming, no
\* step of the exchange (an event of any type, a transport fault) changes it.
C6_TerminalIdempotence ==
    [][(Reading /\ ~Record.isStreaming) => RecordNext = Record]_vars

C9_ResponseTimeOnce ==
    [][\A i \in DOMAIN messages \cap DOMAIN messages' :
        /\ messages[i].responseTime # NoTime
            => messages'[i].responseTime = messages[i].responseTime
        /\ messages'[i].responseTime # messages[i].responseTime
            => Applies({"stream_complete"})
        /\ (~messages[i].isStreaming /\ messages[i].responseTime = NoTime)
            => messages'[i].responseTime = NoTime]_vars

\* The record's content was replaced by an error text before.
Replaced(msg) ==
    \/ StartsWith(msg.content, ErrorPrefix)
    \/ StartsWith(msg.content, <<"Sorry, I encountered an error: ">>)

\* C10 as claimed: a step extends the content of a record or leaves it, but
\* for the step that applies an error (event or transport fault), and that
\* step replaces the content of a record once at most.
C10_ContentGrows ==
    [][\A i \in DOMAIN messages \cap DOMAIN messages' :
        \/ IsPrefix(messages[i].content, messages'[i].content)
        \/ /\ Applies({"error"}) \/ FaultStep
           /\ ~Replaced(messages[i])]_vars

-----------------------------------------------------------------------------
(* Function calls, under SpecCalls *)

\* The first-match policy: the earliest call of that name without a result.
FirstMatch(calls, name, result) ==
    LET open == {i \in DOMAIN calls : calls[i].name = name /\ calls[i].result = Undefined}
    IN  IF open = {} THEN calls ELSE [calls EXCEPT ![Min(open)].result = result]

\* C5 as claimed: a step that applies one function_result event sets the
\* result of the earliest call of that name without a result, and of no other;
\* without such a call it changes nothing.
C5_FirstMatch ==
    [][(ReadStep /\ Len(NewPayloads) = 1 /\ Len(EventsOf(NewPayloads)) = 1
        /\ EventsOf(NewPayloads)[1].type = "function_result")
       => RecordNext = [Record EXCEPT !.functionCalls =
                FirstMatch(@, EventsOf(NewPayloads)[1].function_name,
                              EventsOf(NewPayloads)[1].result)]]_vars

\* C11 as claimed: a result, once attached to a function-call record, is not
\* changed by any later step, whatever its value.
C11_ResultSetOnce ==
    [][\A i \in DOMAIN messages \cap DOMAIN messages' :
        \A j \in DOMAIN messages[i].functionCalls \cap DOMAIN messages'[i].functionCalls :
            messages[i].functionCalls[j].result # Undefined
            => messages'[i].functionCalls[j].result = messages[i].functionCalls[j].result]_vars

\* C12 as claimed: the function-call records of a message have pairwise
\* distinct ids.
C12_CallIdsDistinct ==
    \A i \in DOMAIN messages :
        \A j, k \in DOMAIN messages[i].functionCalls :
            j # k => messages[i].functionCalls[j].id # messages[i].functionCalls[k].id

Names(calls) == [j \in DOMAIN calls |-> calls[j].name]

IsCall(event) == event.type = "function_call"

CallNames(events) ==
    [j \in DOMAIN SelectSeq(events, IsCall) |-> SelectSeq(events, IsCall)[j].function_name]

\* C19: a step that applies one function_call event appends one record, with
\* the event's name and arguments and no result, behind the records the
\* message had, which it leaves as they were, and changes nothing else of the
\* message; the names of the records are the names of the function_call
\* events in arrival order; and no step changes the name or the arguments of
\* a record.
C19_CallAppended ==
    /\ [][(ReadStep /\ Len(NewPayloads) = 1 /\ Len(EventsOf(NewPayloads)) = 1
            /\ IsCall(EventsOf(NewPayloads)[1]))
           => /\ Len(RecordNext.functionCalls) = Len(Record.functionCalls) + 1
              /\ SubSeq(RecordNext.functionCalls, 1, Len(Record.functionCalls))
                    = Record.functionCalls
              /\ LET new == RecordNext.functionCalls[Len(RecordNext.functionCalls)]
                     event == EventsOf(NewPayloads)[1]
                 IN  /\ new.name = event.function_name
                     /\ new.arguments = event.arguments
                     /\ new.result = Undefined
              /\ RecordNext = [Record EXCEPT !.functionCalls = RecordNext.functionCalls]]_vars
    /\ [](Reading => Names(Record.functionCalls) = CallNames(EventsOf(payloads)))
    /\ [][\A i \in DOMAIN messages \cap DOMAIN messages' :
            \A j \in DOMAIN messages[i].functionCalls :
                /\ j \in DOMAIN messages'[i].functionCalls
                /\ messages'[i].functionCalls[j].name = messages[i].functionCalls[j].name
                /\ messages'[i].functionCalls[j].arguments
                        = messages[i].functionCalls[j].arguments]_vars

\* Calls of g, f, g arrived in that order, each in a step of its own.
C19_Witness ==
    /\ Reading
    /\ Len(payloads) = 3
    /\ Names(Record.functionCalls) = <<"g", "f", "g">>
    /\ \A j \in 1..3 : Record.functionCalls[j].result = Undefined

-----------------------------------------------------------------------------
(* Several exchanges, under SpecSession *)

\* C13 as claimed: the messages of the conversation have pairwise distinct
\* ids, whatever the clock read when they were created.
C13_MessageIdsDistinct ==
    \A i, j \in DOMAIN messages : i # j => messages[i].id # messages[j].id

\* C14 as claimed: a message that is streaming is the record of the exchange
\* that is running (so there is one at most, and none between exchanges).
C14_OneStreamingRecord ==
    \A i \in DOMAIN messages :
        messages[i].isStreaming => (pc # "idle" /\ i = Len(messages))

Ids(msgs) == [i \in DOMAIN msgs |-> msgs[i].id]

\* An exchange is live: handleSubmit has been entered and has not returned.
Live == pc # "idle"

\* C15: while an exchange is live the controls are disabled (the loading flag
\* is set), so no step begins another exchange and none is a New Chat: the
\* count of submissions, the messages of the conversation (their number and
\* ids) and the empty input stay, and the exchange that is reading is the
\* one that was submitted last.
C15_OneLiveExchange ==
    /\ [](Live => (isLoading /\ inputValue = <<>> /\ IsTarget(Record)))
    /\ [][Live => /\ exchanges' = exchanges
                  /\ Ids(messages') = Ids(messages)
                  /\ inputValue' = inputValue
                  /\ (Live' => assistantMessageId' = assistantMessageId)]_vars
    /\ [][exchanges' # exchanges => (~Live /\ ~isLoading /\ Live')]_vars

\* The first exchange is reading events and a further submission is still
\* allowed in this run.
C15_Witness ==
    /\ Reading
    /\ isLoading
    /\ exchanges = 1
    /\ exchanges < MaxSessionExchanges
    /\ payloads # <<>>

-----------------------------------------------------------------------------
(* The end-to-end scenario, under SpecScenario *)

ScenarioPayloads ==
    [k \in DOMAIN ScenarioLines |-> PayloadOf(ScenarioLines[k])]

HelloWorld == <<"H", "e", "l", "l", "o", " ", "w", "o", "r", "l", "d">>

\* The step that applies the last event of the scenario.
ScenarioCompletes ==
    Reading /\ payloads # ScenarioPayloads /\ payloads' = ScenarioPayloads

\* C16: however the four lines of the scenario are cut into chunks, once they
\* have been read the record has content "Hello world", is not streaming and
\* has a response time, and the session token is T1; the response time is the
\* elapsed time at the step that applied stream_complete (half milliseconds
\* rounded to milliseconds), 50 when the clock then read 50 ms after the
\* start; and the end of the stream leaves all that as it is.
C16_EndToEnd ==
    /\ []((Reading /\ payloads = ScenarioPayloads)
            => /\ Record.content = HelloWorld
               /\ ~Record.isStreaming
               /\ Record.responseTime # NoTime
               /\ Record.functionCalls = <<>>
               /\ threadId = "T1")
    /\ [][ScenarioCompletes
            => /\ 2 * RecordNext.responseTime - 1 <= clock - startTime
               /\ clock - startTime <= 2 * RecordNext.responseTime
               /\ clock - startTime = 100 => RecordNext.responseTime = 50]_vars
    /\ [][(Reading /\ payloads = ScenarioPayloads /\ pc' = "idle" /\ outcome' = "done")
            => (messages' = messages /\ threadId' = threadId)]_vars

\* The scenario was read in chunks that cut its lines, 50 ms after the start.
C16_Witness ==
    /\ Reading
    /\ split
    /\ payloads = ScenarioPayloads
    /\ Record.content = HelloWorld
    /\ Record.responseTime = 50
    /\ ~Record.isStreaming
    /\ threadId = "T1"

-----------------------------------------------------------------------------
(* The terminal events, under SpecTerminal *)

\* A step of the read loop that applies exactly one event, of that type.
AppliesOne(type) ==
    /\ ReadStep
    /\ Len(NewPayloads) = 1
    /\ Len(EventsOf(NewPayloads)) = 1
    /\ EventsOf(NewPayloads)[1].type = type

Event == EventsOf(NewPayloads)[1]

CallF == <<"{\"type\":\"function_call\",\"function_name\":\"f\",\"arguments\":{}}">>

Complete == <<"{\"type\":\"stream_complete\"}">>

ErrorBoom == <<"{\"type\":\"error\",\"error\":\"boom\"}">>

\* C17: the start instant of an exchange is the clock reading at the
\* submission, before the request, and stays while the exchange is live; a
\* step that applies stream_complete to a streaming record makes it not
\* streaming, sets its response time to the time elapsed since the start
\* instant, rounded to the nearest millisecond (the clock counts halves), and
\* changes nothing else of the record.
C17_StreamComplete ==
    /\ [][(~Live /\ Live') => startTime' = clock]_vars
    /\ [][(Live /\ Live') => startTime' = startTime]_vars
    /\ [][(AppliesOne("stream_complete") /\ Record.isStreaming)
            => /\ RecordNext = [Record EXCEPT !.isStreaming = FALSE,
                                             !.responseTime = RecordNext.responseTime]
               /\ RecordNext.responseTime >= 0
               /\ 2 * RecordNext.responseTime - 1 <= clock - startTime
               /\ clock - startTime <= 2 * RecordNext.responseTime + 1]_vars

\* stream_complete was applied, half a millisecond after the start, to a
\* record that had a function call and content.
C17_Witness ==
    /\ Reading
    /\ payloads = <<CallF, ContentA, Complete>>
    /\ clock - startTime = 1
    /\ Record.responseTime = 1
    /\ ~Record.isStreaming
    /\ Record.content = <<"a">>
    /\ Names(Record.functionCalls) = <<"f">>

\* C18: a step that applies an error event to a streaming record replaces
\* its content by the error prefix followed by the event's description,
\* makes it not streaming and changes nothing else of the record: the
\* function calls stay and the response time stays absent.
C18_ErrorEvent ==
    [][(AppliesOne("error") /\ Record.isStreaming)
        => /\ RecordNext = [Record EXCEPT !.content = ErrorPrefix \o Event.error,
                                         !.isStreaming = FALSE]
           /\ RecordNext.responseTime = NoTime]_vars

\* An error event was applied to a record that had a function call and
\* content.
C18_Witness ==
    /\ Reading
    /\ payloads = <<CallF, ContentA, ErrorBoom>>
    /\ Record.content = ErrorPrefix \o <<"b", "o", "o", "m">>
    /\ ~Record.isStreaming
    /\ Record.responseTime = NoTime
    /\ Names(Record.functionCalls) = <<"f">>

-----------------------------------------------------------------------------
(* The events without effect on the record, under SpecPassive *)

\* The types the switch of the reducer has a case for.
Recognized == {"function_call", "function_result", "thread_info", "content",
               "intermediate", "stream_complete", "error"}

AppliesOneOther ==
    /\ ReadStep
    /\ Len(NewPayloads) = 1
    /\ Len(EventsOf(NewPayloads)) = 1
    /\ EventsOf(NewPayloads)[1].type \notin Recognized \ {"intermediate"}

\* Nothing the page shows changes.
NoEffect ==
    /\ messages' = messages
    /\ threadId' = threadId
    /\ isLoading' = isLoading
    /\ inputValue' = inputValue

ThreadT1 == <<"{\"type\":\"thread_info\",\"thread_id\":\"T1\"}">>

\* C20 as claimed: thread_info, intermediate and events of an unknown type
\* leave every message as it is; thread_info makes its token the session
\* token, the other two have no effect.
C20_PassiveEvents ==
    /\ [][AppliesOne("thread_info")
            => (messages' = messages /\ threadId' = Event.thread_id)]_vars
    /\ [][AppliesOneOther => NoEffect]_vars

\* C20 as amended: the same, but a thread_info event makes its token the
\* session token when the token is not empty, and has no effect when it is.
C20_PassiveEventsAmended ==
    /\ [][AppliesOne("thread_info")
            => /\ messages' = messages
               /\ isLoading' = isLoading
               /\ inputValue' = inputValue
               /\ threadId' = IF Event.thread_id # "" THEN Event.thread_id
                                                     ELSE threadId]_vars
    /\ [][AppliesOneOther => NoEffect]_vars

\* A session token arrived for a record that had a function call, and left
\* it.
C20_Witness ==
    /\ Reading
    /\ payloads = <<CallF, ThreadT1>>
    /\ threadId = "T1"
    /\ Record.content = <<>>
    /\ Names(Record.functionCalls) = <<"f">>
    /\ Record.isStreaming
    /\ Record.responseTime = NoTime

-----------------------------------------------------------------------------
(* Line classification, under SpecFrames *)

\* What a completed line yields, by its trimmed text: nothing when it is
\* empty, starts with the event marker or starts with neither marker; when it
\* starts with the data marker, the trimmed text after the marker, or nothing
\* when that is empty.
Yield(line) ==
    LET trimmed == Trim(line)
        text == Trim(SubSeq(trimmed, Len(DATA) + 1, Len(trimmed)))
    IN  IF \/ trimmed = <<>>
           \/ StartsWith(trimmed, EVENT)
           \/ ~StartsWith(trimmed, DATA)
        THEN <<>>
        ELSE IF text = <<>> THEN <<>> ELSE <<text>>

RECURSIVE Yields(_)
Yields(lines) ==
    IF lines = <<>> THEN <<>> ELSE Yield(Head(lines)) \o Yields(Tail(lines))

Unchanged == messages' = messages /\ threadId' = threadId /\ isLoading' = isLoading

\* C21: the payloads handed on are what the completed lines yield by their
\* classification, one for each data line with text after the marker, in
\* order; and a step of the read loop whose lines yield no payload changes
\* nothing of the state.
C21_LineClassification ==
    /\ [](Reading => payloads = Yields(CompleteLines(received)))
    /\ [][(ReadStep /\ NewPayloads = <<>>) => Unchanged]_vars

\* An event line, then a data line that ends in CR LF and has no space after
\* the marker: one payload, the text between marker and CR.
C21_Witness ==
    /\ Reading
    /\ received = EVENT \o <<"m", NL>> \o DATA \o <<"7", "\r", NL>>
    /\ payloads = << <<"7">> >>
    /\ buffer = <<>>

-----------------------------------------------------------------------------
(* The end of the stream, under SpecTail *)

StreamEnds == Reading /\ pc' = "idle" /\ outcome' = "done"

CompleteLine == DATA \o <<" ", "{\"type\":\"stream_complete\"}">>

\* C22: text that has no line break behind it yields no payload and changes
\* nothing: not while it waits in the buffer, not when the stream ends (the
\* end of the stream changes neither the messages nor the session token),
\* and not later, when the only change of the messages is a New Chat.
C22_TailDiscarded ==
    /\ [](Reading => Len(payloads) <= Cardinality(LineEnds(received)))
    /\ [][(ReadStep /\ LineEnds(received') = LineEnds(received))
            => (NewPayloads = <<>> /\ Unchanged)]_vars
    /\ [][StreamEnds => (messages' = messages /\ threadId' = threadId)]_vars
    /\ [][(~Live /\ ~Live')
            => (messages' = messages \/ messages' = <<WelcomeMessage>>)]_vars

\* The stream ended with a stream_complete line that lacked its line break
\* in the buffer; the record is still streaming, its content as it was.
C22_Witness ==
    /\ ~Live
    /\ outcome = "done"
    /\ dropped = CompleteLine
    /\ Record.isStreaming
    /\ Record.responseTime = NoTime
    /\ Record.content = <<"a">>

-----------------------------------------------------------------------------
(* After the exchange, under SpecSession *)

\* The message is the record of an exchange that has ended and is streaming
\* still: its stream was exhausted before a terminal event was applied.
LeftStreaming(i) ==
    /\ messages[i].isStreaming
    /\ (~Live \/ i < Len(messages))

\* C23 as claimed: the record of an exchange whose stream was exhausted
\* before a terminal event stays as it is (streaming, its content and
\* function calls as built, no response time) in every later step that is
\* not a New Chat.
C23_LeftStreaming ==
    [][\A i \in DOMAIN messages \cap DOMAIN messages' :
        LeftStreaming(i) => messages'[i] = messages[i]]_vars

Apology == <<"Sorry, I encountered an error: ">>

\* C24 as claimed: a transport fault replaces the content of the record of
\* the exchange by an error description and makes it not streaming; it
\* leaves the rest of the record, the response time with it, and every other
\* message as they were.
C24_TransportFault ==
    [][FaultStep
        => \E message \in FetchFaults \cup ReadFaults :
                messages' = [messages EXCEPT ![Len(messages)] =
                                [@ EXCEPT !.content = Apology \o message,
                                          !.isStreaming = FALSE]]]_vars

\* C27 as claimed: a step of an exchange (an event, a transport fault, the
\* end of the stream) keeps the number and order of the messages and every
\* message but the record of the exchange, and keeps the id, the role and
\* the creation timestamp of that record.
C27_ReducerFrame ==
    [][Live
        => /\ Len(messages') = Len(messages)
           /\ \A i \in 1..(Len(messages) - 1) : messages'[i] = messages[i]
           /\ RecordNext.id = Record.id
           /\ RecordNext.type = Record.type
           /\ RecordNext.timestamp = Record.timestamp]_vars

\* The token of the last thread_info event with a token among the events, or
\* the token held before them.
RECURSIVE LastToken(_, _)
LastToken(events, held) ==
    IF events = <<>> THEN held
    ELSE LastToken(Tail(events),
                   IF Head(events).type = "thread_info" /\ Head(events).thread_id # ""
                   THEN Head(events).thread_id ELSE held)

\* C26: the token sent with a request is the token held at the submission;
\* a step of the read loop leaves as token held the token of the last
\* thread_info event with a non-empty token it applied, or the one held
\* before; between exchanges the token held changes only by a New Chat, to
\* the empty token; and no other step changes it.  It is empty at the start.
C26_SessionContinuity ==
    /\ [][(~Live /\ Live') => (requestThreadId' = threadId /\ threadId' = threadId)]_vars
    /\ [][ReadStep => threadId' = LastToken(EventsOf(NewPayloads), threadId)]_vars
    /\ [][(Live /\ ~ReadStep) => threadId' = threadId]_vars
    /\ [][(~Live /\ ~Live')
            => /\ threadId' \in {threadId, ""}
               /\ messages' # messages => threadId' = ""]_vars
    /\ [](exchanges = 0 => threadId = "")

\* The second exchange was sent with the token T1 of the first, and has
\* received the token T2.
C26_Witness ==
    /\ Reading
    /\ exchanges = 2
    /\ requestThreadId = "T1"
    /\ threadId = "T2"

-----------------------------------------------------------------------------
(* The loading flag, under SpecLoading *)

\* C28: the loading flag is set exactly while an exchange is live, from the
\* accepted submission to the exit of handleSubmit; the step that ends the
\* exchange (end of the stream or a transport fault) clears it; a step of
\* the read loop, whatever events it applies, leaves it set; and, the stream
\* closing or failing in the end, a set loading flag is cleared eventually.
C28_LoadingFlag ==
    /\ [](isLoading <=> Live)
    /\ [][(~Live /\ Live') => (~isLoading /\ isLoading')]_vars
    /\ [][(Live /\ ~Live') => (outcome' \in {"done", "fault"} /\ ~isLoading')]_vars
    /\ [][(ReadStep \/ (Live /\ Live')) => isLoading']_vars
    /\ (isLoading ~> ~isLoading)

\* stream_complete was applied, nothing is left to read, the stream is open:
\* the record is not streaming and the page is loading.
C28_Witness ==
    /\ Reading
    /\ payloads = <<Complete>>
    /\ wire = <<>>
    /\ ~Record.isStreaming
    /\ isLoading

-----------------------------------------------------------------------------
(* Faulty events, under SpecFaults *)

\* C25 as claimed: a step of the read loop, whatever faulty payloads it
\* meets, leaves the loop reading and applies the events it has read (here:
\* extends the content by the fragments of its content events, in order);
\* and an exchange ends only by the end of the stream or a transport fault.
C25_FaultsAreLocal ==
    /\ [][(Reading /\ received' # received)
            => /\ pc' = "reading"
               /\ RecordNext.content
                    = Record.content \o Fragments(EventsOf(NewPayloads))]_vars
    /\ [][(Reading /\ ~Reading') => (pc' = "idle" /\ outcome' \in {"done", "fault"})]_vars

====
